---- MODULE Spec2Model ----
(***************************************************************************)
(* Model of smalloc.c: a first-fit allocator over one mmap'ed region with  *)
(* an address-ordered doubly linked free list, split on allocate and       *)
(* forward/backward merge on free.                                         *)
(*                                                                         *)
(* Memory is a partial map from addresses to segment headers: its domain   *)
(* is the set of addresses at which the bytes of a header written by the   *)
(* allocator are known to be intact.  Headers of absorbed segments stay in *)
(* the map (the code never erases them) until the next successful smalloc, *)
(* which may hand their bytes to the caller or write a new header over     *)
(* them.                                                                   *)
(***************************************************************************)
EXTENDS Integers, FiniteSets, Sequences, TLC

\* ---------------------------------------------------------------- bounds
MaxLive == 2            \* cap on simultaneously outstanding handles

\* payload sizes and region sizes the callers pass
PayloadSizes == {0, 3, 2000, 4048, 5000}
RegionSizes == {1, 4096}

\* payload sizes near INT_MAX as well: 24 + 2147483647 exceeds an int, and
\* 24 + 2147483617 + 7 does
WidePayloadSizes == {0, 4048, 2147483617, 2147483647}

\* ------------------------------------------------------- program constants
NULL == 0               \* the null pointer
MAP_FAILED == -1        \* (void *) -1
MmapAddr == 8192        \* the page-aligned address a successful mmap returns
PageSize == 4096        \* page_sz
HdrSize == 24           \* sizeof(mem_seg_t): int, int, pointer, pointer (LP64)
Align == 8              \* alignment factor of smalloc
MaxInt32 == 2147483647  \* INT_MAX, the largest value of an int

VARIABLES base_address, free_list_head, total_region, mem,
          stat, live, released, last, preFree, wild

vars == <<base_address, free_list_head, total_region, mem,
          stat, live, released, last, preFree, wild>>

\* ------------------------------------------------------------ pure helpers
Hdr(s, u, n, p) == [seg_size |-> s, in_use |-> u, next |-> n, prev |-> p]

Store(m, a, r) == [x \in (DOMAIN m) \cup {a} |-> IF x = a THEN r ELSE m[x]]

\* int arithmetic: 32 bits, two's complement, wrapping on overflow
Add32(a, b) ==
    IF a > 0 /\ b > 0 /\ a > MaxInt32 - b
    THEN (a - MaxInt32 - 1) + (b - MaxInt32 - 1)
    ELSE IF a < 0 /\ b < 0 /\ a < (-MaxInt32 - 1) - b
    THEN (a + MaxInt32 + 1) + (b + MaxInt32 + 1)
    ELSE a + b

Sub32(a, b) ==
    IF a >= 0 /\ b < 0 /\ a > MaxInt32 + b
    THEN (a - MaxInt32 - 1) + ((-MaxInt32 - 1) - b)
    ELSE IF a < 0 /\ b > 0 /\ a < (-MaxInt32 - 1) + b
    THEN ((a + MaxInt32 + 1) + (MaxInt32 - b)) + 1
    ELSE a - b

\* int division of C: the quotient is truncated toward zero (divisor > 0)
CDiv(a, b) == IF a >= 0 THEN a \div b ELSE -(((-(a + b)) \div b) + 1)

\* mutant: no rounding
align_value_M(size, factor) == size

\* mutant: always adds a whole factor, also to a multiple of it
align_value_M2(size, factor) == (CDiv(size, factor) + 1) * factor

align_value(size, factor) == CDiv(Add32(size, factor - 1), factor) * factor

\* mutant: strict comparison, an exact fit is rejected
Fits_M(seg_size, needed_size) == seg_size > needed_size

\* line 38: the fit test of the first-fit walk
Fits(seg_size, needed_size) == seg_size >= needed_size

\* mutant: the walk does not stop at the first fit and returns the last one
RECURSIVE SearchFrom_M(_, _, _, _)
SearchFrom_M(m, current, needed_size, steps) ==
    IF current = NULL THEN [seg |-> NULL, steps |-> steps]
    ELSE LET rest == SearchFrom_M(m, m[current].next, needed_size, steps + 1)
         IN IF rest.seg # NULL THEN rest
            ELSE IF m[current].seg_size >= needed_size
                 THEN [seg |-> current, steps |-> steps]
                 ELSE rest

RECURSIVE SearchFrom(_, _, _, _)
SearchFrom(m, current, needed_size, steps) ==
    IF current = NULL THEN [seg |-> NULL, steps |-> steps]
    ELSE IF Fits(m[current].seg_size, needed_size)
         THEN [seg |-> current, steps |-> steps]
         ELSE SearchFrom(m, m[current].next, needed_size, steps + 1)

\* mutant: the step counter starts at one and so counts the fit itself
search_for_fit_M(m, head, needed_size) == SearchFrom(m, head, needed_size, 1)

search_for_fit(m, head, needed_size) == SearchFrom(m, head, needed_size, 0)

RECURSIVE FindRunner(_, _, _)
FindRunner(m, runner, seg) ==
    IF m[runner].next # NULL /\ m[runner].next < seg
    THEN FindRunner(m, m[runner].next, seg)
    ELSE runner

\* mutant: a segment put in front of the head is not linked back from the
\* old head (line 59 missing)
add_to_free_list_M(m, head, seg) ==
    LET m0 == [m EXCEPT ![seg].in_use = 0] IN
    IF head = NULL
    THEN [mem |-> [m0 EXCEPT ![seg].next = NULL, ![seg].prev = NULL],
          head |-> seg]
    ELSE IF seg < head
    THEN [mem |-> [m0 EXCEPT ![seg].next = head, ![seg].prev = NULL],
          head |-> seg]
    ELSE LET runner == FindRunner(m0, head, seg)
             m1 == [m0 EXCEPT ![seg].next = m0[runner].next]
             m2 == IF m1[runner].next # NULL
                   THEN [m1 EXCEPT ![m1[runner].next].prev = seg]
                   ELSE m1
             m3 == [m2 EXCEPT ![runner].next = seg]
             m4 == [m3 EXCEPT ![seg].prev = runner]
         IN [mem |-> m4, head |-> head]

add_to_free_list(m, head, seg) ==
    LET m0 == [m EXCEPT ![seg].in_use = 0] IN
    IF head = NULL
    THEN [mem |-> [m0 EXCEPT ![seg].next = NULL, ![seg].prev = NULL],
          head |-> seg]
    ELSE IF seg < head
    THEN LET m1 == [m0 EXCEPT ![seg].next = head, ![seg].prev = NULL]
             m2 == [m1 EXCEPT ![head].prev = seg]
         IN [mem |-> m2, head |-> seg]
    ELSE LET runner == FindRunner(m0, head, seg)
             m1 == [m0 EXCEPT ![seg].next = m0[runner].next]
             m2 == IF m1[runner].next # NULL
                   THEN [m1 EXCEPT ![m1[runner].next].prev = seg]
                   ELSE m1
             m3 == [m2 EXCEPT ![runner].next = seg]
             m4 == [m3 EXCEPT ![seg].prev = runner]
         IN [mem |-> m4, head |-> head]

\* mutant: removing the head does not advance free_list_head (line 79 missing)
remove_from_free_list_M(m, head, seg) ==
    LET m3 == IF seg = head
              THEN IF m[seg].next # NULL
                   THEN [m EXCEPT ![m[seg].next].prev = NULL]
                   ELSE m
              ELSE LET m1 == IF m[seg].prev # NULL
                             THEN [m EXCEPT ![m[seg].prev].next = m[seg].next]
                             ELSE m
                       m2 == IF m1[seg].next # NULL
                             THEN [m1 EXCEPT ![m1[seg].next].prev = m1[seg].prev]
                             ELSE m1
                   IN m2
    IN [mem |-> [m3 EXCEPT ![seg].next = NULL, ![seg].prev = NULL],
        head |-> head]

remove_from_free_list(m, head, seg) ==
    LET m3 == IF seg = head
              THEN IF m[seg].next # NULL
                   THEN [m EXCEPT ![m[seg].next].prev = NULL]
                   ELSE m
              ELSE LET m1 == IF m[seg].prev # NULL
                             THEN [m EXCEPT ![m[seg].prev].next = m[seg].next]
                             ELSE m
                       m2 == IF m1[seg].next # NULL
                             THEN [m1 EXCEPT ![m1[seg].next].prev = m1[seg].prev]
                             ELSE m1
                   IN m2
        h1 == IF seg = head THEN m[seg].next ELSE head
    IN [mem |-> [m3 EXCEPT ![seg].next = NULL, ![seg].prev = NULL],
        head |-> h1]

\* mutant: the size of the absorbed segment is not added
Absorb_M(size, other) == size

\* mutant: the size of the absorbed segment is assigned instead of added
Absorb_M2(size, other) == other

\* line 103 and line 122: the survivor absorbs the size of the other segment
Absorb(size, other) == size + other

\* mutant: the bounds test uses the end of the successor and misses the
\* last segment of the region
NextIsFree_M(m, next_seg, base, total) ==
    /\ next_seg < base + total
    /\ next_seg + m[next_seg].seg_size < base + total
    /\ m[next_seg].in_use = 0

\* mutant: the successor is merged whether or not it is in use
NextIsFree_M2(m, next_seg, base, total) == next_seg < base + total

\* lines 100-101: the successor lies inside the region and is free
NextIsFree(m, next_seg, base, total) ==
    next_seg < base + total /\ m[next_seg].in_use = 0

\* mutant: the scan for a free predecessor never finds one
FindPrev_M(m, temp, seg) == NULL

\* lines 107-116: scan the free list for the segment that ends where seg starts
RECURSIVE FindPrev(_, _, _)
FindPrev(m, temp, seg) ==
    IF temp = NULL THEN NULL
    ELSE IF temp + m[temp].seg_size = seg THEN temp
    ELSE FindPrev(m, m[temp].next, seg)

merge_adjacent(m, head, seg, base, total) ==
    LET next_seg == seg + m[seg].seg_size
        f == IF NextIsFree(m, next_seg, base, total)
             THEN LET r == remove_from_free_list(m, head, next_seg)
                  IN [mem |-> [r.mem EXCEPT ![seg].seg_size =
                                   Absorb(r.mem[seg].seg_size, r.mem[next_seg].seg_size)],
                      head |-> r.head]
             ELSE [mem |-> m, head |-> head]
        prev_seg == FindPrev(f.mem, f.head, seg)
    IN IF prev_seg # NULL
       THEN LET r1 == remove_from_free_list(f.mem, f.head, prev_seg)
                r2 == remove_from_free_list(r1.mem, r1.head, seg)
                m3 == [r2.mem EXCEPT ![prev_seg].seg_size =
                          Absorb(r2.mem[prev_seg].seg_size, r2.mem[seg].seg_size)]
                r4 == add_to_free_list(m3, r2.head, prev_seg)
            IN [mem |-> r4.mem, head |-> r4.head, result |-> prev_seg]
       ELSE [mem |-> f.mem, head |-> f.head, result |-> seg]

\* ------------------------------------------------------------- derived views
\* the free list as the sequence of addresses reached from the head
RECURSIVE ListFrom(_, _)
ListFrom(m, a) == IF a = NULL THEN <<>> ELSE <<a>> \o ListFrom(m, m[a].next)

FreeSeq == ListFrom(mem, free_list_head)
FreeAddrs == {FreeSeq[i] : i \in 1..Len(FreeSeq)}
FreeSet(m, head) ==
    LET s == ListFrom(m, head) IN {<<s[i], m[s[i]].seg_size>> : i \in 1..Len(s)}

\* the segments found by walking the headers from the base of the region
RECURSIVE Walk(_, _, _)
Walk(m, a, end) ==
    IF a >= end \/ a \notin DOMAIN m \/ m[a].seg_size <= 0 THEN <<>>
    ELSE <<a>> \o Walk(m, a + m[a].seg_size, end)


Initialized == base_address = MmapAddr
RegionEnd == base_address + total_region
SegSeq == IF Initialized THEN Walk(mem, base_address, RegionEnd) ELSE <<>>
Segs == {SegSeq[i] : i \in 1..Len(SegSeq)}

RECURSIVE SumSizes(_)
SumSizes(S) == IF S = {} THEN 0
               ELSE LET a == CHOOSE x \in S : TRUE
                    IN mem[a].seg_size + SumSizes(S \ {a})

\* The record of the call just made: its argument and return value, the
\* segment it chose or released with the size that segment had before the
\* call, whether it split, whether it changed the heap, and whether it
\* concerns the pointer the call before it returned or released.
NoLast == [op |-> "none", arg |-> 0, ret |-> 0, seg |-> NULL, segsz |-> 0,
           split |-> FALSE, acted |-> FALSE, again |-> FALSE]
NoStat == [success |-> 0, payload_offset |-> 0, hops |-> 0]

\* ----------------------------------------------------------------- Init
Init ==
    /\ base_address = NULL
    /\ free_list_head = NULL
    /\ total_region = 0
    /\ mem = <<>>
    /\ stat = NoStat
    /\ live = <<>>
    /\ released = {}
    /\ last = NoLast
    /\ preFree = {}
    /\ wild = FALSE

\* ---------------------------------------------------------------- my_init
\* my_init is called until it has succeeded once: calling it again on a mapped
\* region is excluded by its documented precondition.  The three actions are
\* the three ways through the function.
\* open("/dev/zero") fails: nothing is touched
my_init_open_fails(region_size) ==
    /\ ~wild
    /\ ~Initialized
    /\ last' = [NoLast EXCEPT !.op = "my_init", !.arg = region_size, !.ret = -1]
    /\ preFree' = {}
    /\ stat' = NoStat
    /\ UNCHANGED <<base_address, free_list_head, total_region, mem, live, released,
                   wild>>

\* mmap fails: base_address has already been assigned MAP_FAILED
my_init_mmap_fails(region_size) ==
    /\ ~wild
    /\ ~Initialized
    /\ base_address' = MAP_FAILED
    /\ last' = [NoLast EXCEPT !.op = "my_init", !.arg = region_size, !.ret = -1]
    /\ preFree' = {}
    /\ stat' = NoStat
    /\ UNCHANGED <<free_list_head, total_region, mem, live, released, wild>>

my_init_ok(region_size) ==
    LET adjusted == align_value(region_size, PageSize) IN
    /\ ~wild
    /\ ~Initialized
    /\ base_address' = MmapAddr
    /\ mem' = Store(<<>>, MmapAddr, Hdr(adjusted, 0, NULL, NULL))
    /\ free_list_head' = MmapAddr
    /\ total_region' = adjusted
    /\ last' = [NoLast EXCEPT !.op = "my_init", !.arg = region_size, !.ret = 0,
                              !.acted = TRUE]
    /\ preFree' = {}
    /\ stat' = NoStat
    /\ UNCHANGED <<live, released, wild>>

\* ---------------------------------------------------------------- smalloc
\* stat is the Malloc_Status record of the call just made (NoStat after a call
\* that takes none); live maps each outstanding pointer to the payload size
\* requested for it; preFree is the free list, as (address, size) pairs, that
\* the successful smalloc just made started from.
\* wild becomes TRUE when smalloc stores a header outside the mapped region:
\* the behaviour is undefined from there on (a fault, or a write into memory
\* the allocator does not own), and no later call is followed.
\* mutant: the header size is subtracted once more
RemainingSpace_M(seg_size, total_required) == seg_size - total_required - HdrSize

\* lines 167-169: header plus payload, rounded up to a multiple of 8, in int
TotalRequired(payload_size) == align_value(Add32(HdrSize, payload_size), Align)

\* line 181: what is left of the chosen segment behind the allocation
RemainingSpace(seg_size, total_required) == Sub32(seg_size, total_required)

\* mutant: a remainder of exactly the header size is not split off
CanSplit_M(remaining_space) == remaining_space > HdrSize

\* mutant: any remainder is split off, also one smaller than a header
CanSplit_M2(remaining_space) == remaining_space > 0

\* line 185: the remainder is large enough to carry a header of its own
CanSplit(remaining_space) == remaining_space >= HdrSize

\* mutant: the pointer returned is the address of the header
PayloadOf_M(target) == target

\* line 196: the payload starts right behind the header
PayloadOf(target) == target + HdrSize

\* line 199: the offset reported in the status record
OffsetOf(usable_mem, base) == usable_mem - base

\* A successful smalloc may hand the bytes of absorbed headers to the caller
\* (line 196) or overwrite them with the remainder header (lines 186-189):
\* afterwards only the headers of the segments that tile the region are known.
HandOut(m, base, total) ==
    LET w == Walk(m, base, base + total)
    IN [a \in {w[i] : i \in 1..Len(w)} |-> m[a]]

\* mutant: the hop count of the failed search is left at zero
Failed_M == [success |-> 0, payload_offset |-> -1, hops |-> 0]

\* lines 161-163 and 175-177: the status record of a failed call
Failed == [success |-> 0, payload_offset |-> -1, hops |-> -1]

\* line 186: the remainder header is written at target + total_required; with
\* a negative total_required that address lies below the mapped region
InRegion(a, base, total) == base <= a /\ a < base + total

smalloc(payload_size) ==
    /\ ~wild
    /\ Cardinality(DOMAIN live) < MaxLive
    /\ IF base_address = NULL
       THEN /\ stat' = Failed
            /\ preFree' = {}
            /\ last' = [NoLast EXCEPT !.op = "smalloc", !.arg = payload_size, !.ret = NULL]
            /\ UNCHANGED <<base_address, free_list_head, total_region, mem, live, released,
                           wild>>
       ELSE LET total_required == TotalRequired(payload_size)
                fit == search_for_fit(mem, free_list_head, total_required)
                target == fit.seg
            IN IF target = NULL
               THEN /\ stat' = Failed
                    /\ preFree' = {}
                    /\ last' = [NoLast EXCEPT !.op = "smalloc", !.arg = payload_size,
                                              !.ret = NULL]
                    /\ UNCHANGED <<base_address, free_list_head, total_region, mem,
                                   live, released, wild>>
               ELSE LET remaining_space == RemainingSpace(mem[target].seg_size, total_required)
                        rm == remove_from_free_list(mem, free_list_head, target)
                        split == CanSplit(remaining_space)
                        free_seg == target + total_required
                        sp == IF split
                              THEN LET m1 == Store(rm.mem, free_seg,
                                                   Hdr(remaining_space, 0, NULL, NULL))
                                       m2 == [m1 EXCEPT ![target].seg_size = total_required]
                                   IN add_to_free_list(m2, rm.head, free_seg)
                              ELSE rm
                        m5 == [sp.mem EXCEPT ![target].in_use = 1]
                        usable_mem == PayloadOf(target)
                    IN IF split /\ ~InRegion(free_seg, base_address, total_region)
                       THEN /\ wild' = TRUE
                            /\ stat' = NoStat
                            /\ preFree' = {}
                            /\ last' = [NoLast EXCEPT !.op = "smalloc",
                                                      !.arg = payload_size]
                            /\ UNCHANGED <<base_address, free_list_head, total_region,
                                           mem, live, released>>
                       ELSE
                       /\ mem' = HandOut(m5, base_address, total_region)
                       /\ free_list_head' = sp.head
                       /\ stat' = [success |-> 1,
                                   payload_offset |-> OffsetOf(usable_mem, base_address),
                                   hops |-> fit.steps]
                       /\ live' = Store(live, usable_mem, payload_size)
                       /\ released' = {}
                       /\ preFree' = FreeSet(mem, free_list_head)
                       /\ last' = [op |-> "smalloc", arg |-> payload_size,
                                   ret |-> usable_mem, seg |-> target,
                                   segsz |-> mem[target].seg_size,
                                   split |-> split, acted |-> TRUE,
                                   again |-> last.op = "sfree" /\ last.acted
                                             /\ last.arg = usable_mem]
                       /\ UNCHANGED <<base_address, total_region, wild>>

\* ------------------------------------------------------------------ sfree
\* line 209: the header sits right in front of the payload
SegOf(ptr) == ptr - HdrSize

\* mutant: tests whether the segment is linked into the free list
AlreadyFree_M(m, head, seg) == seg = head \/ m[seg].prev # NULL

\* line 211: the segment is already marked free
AlreadyFree(m, head, seg) == m[seg].in_use = 0

\* the pointer the previous call returned (smalloc) or released (sfree)
LastPtr == IF last.op = "smalloc" /\ last.acted THEN last.ret
           ELSE IF last.op = "sfree" /\ last.acted THEN last.arg
           ELSE NULL

\* the pointers a caller may pass: NULL, an outstanding handle, or a handle
\* released since the last successful smalloc (its header is still intact)
Handles == {NULL} \cup (DOMAIN live) \cup released

sfree(ptr) ==
    /\ ~wild
    /\ UNCHANGED wild
    /\ preFree' = {}
    /\ stat' = NoStat
    /\ IF ptr = NULL \/ base_address = NULL
       THEN /\ last' = [NoLast EXCEPT !.op = "sfree", !.arg = ptr]
            /\ UNCHANGED <<base_address, free_list_head, total_region, mem,
                           live, released>>
       ELSE LET seg == SegOf(ptr) IN
            IF AlreadyFree(mem, free_list_head, seg)
            THEN /\ last' = [NoLast EXCEPT !.op = "sfree", !.arg = ptr, !.seg = seg,
                                           !.again = LastPtr = ptr]
                 /\ UNCHANGED <<base_address, free_list_head, total_region, mem,
                                live, released>>
            ELSE LET a == add_to_free_list(mem, free_list_head, seg)
                     mg == merge_adjacent(a.mem, a.head, seg, base_address, total_region)
                 IN /\ mem' = mg.mem
                    /\ free_list_head' = mg.head
                    /\ live' = [h \in (DOMAIN live) \ {ptr} |-> live[h]]
                    /\ last' = [op |-> "sfree", arg |-> ptr, ret |-> 0, seg |-> seg,
                                segsz |-> mem[seg].seg_size, split |-> FALSE,
                                acted |-> TRUE,
                                again |-> LastPtr = ptr]
                    /\ released' = released \cup {ptr}
                    /\ UNCHANGED <<base_address, total_region>>

Next ==
    \/ \E n \in RegionSizes : my_init_open_fails(n)
    \/ \E n \in RegionSizes : my_init_mmap_fails(n)
    \/ \E n \in RegionSizes : my_init_ok(n)
    \/ \E n \in PayloadSizes : smalloc(n)
    \/ \E p \in Handles : sfree(p)

Spec == Init /\ [][Next]_vars

\* the same calls, with payload sizes over the whole range of an int
NextWide ==
    \/ \E n \in RegionSizes : my_init_open_fails(n)
    \/ \E n \in RegionSizes : my_init_mmap_fails(n)
    \/ \E n \in RegionSizes : my_init_ok(n)
    \/ \E n \in WidePayloadSizes : smalloc(n)
    \/ \E p \in Handles : sfree(p)

SpecWide == Init /\ [][NextWide]_vars

\* ==================================================================== claims
\* alignUp of the specification: the least multiple of k that is >= n
alignUp(n, k) == n + ((k - (n % k)) % k)
Required(size) == alignUp(HdrSize + size, Align)

FreeSegs == {a \in Segs : mem[a].in_use = 0}
UsedSegs == {a \in Segs : mem[a].in_use # 0}

\* the walk over the headers ends exactly at the end of the region
TilingOK ==
    Initialized =>
        /\ Len(SegSeq) > 0
        /\ LET z == SegSeq[Len(SegSeq)] IN z + mem[z].seg_size = RegionEnd

\* the free list is strictly ascending by address
OrderOK == \A i \in 1..(Len(FreeSeq) - 1) : FreeSeq[i] < FreeSeq[i + 1]

SumOK == Initialized => SumSizes(Segs) = total_region

NoAdjacentFree ==
    \A i \in 1..(Len(SegSeq) - 1) :
        ~(mem[SegSeq[i]].in_use = 0 /\ mem[SegSeq[i + 1]].in_use = 0)

\* half-open byte ranges [a1, b1) and [a2, b2) share no byte
Apart(a1, b1, a2, b2) == b1 <= a2 \/ b2 <= a1 \/ a1 >= b1 \/ a2 >= b2

\* C1: once the region is initialized, the sizes of the segments that tile it
\* (free and in use) add up to the page-rounded size recorded at init.
C1_SizeSum ==
    Initialized =>
        /\ total_region = alignUp(total_region, PageSize)
        /\ total_region > 0
        /\ SumSizes(Segs) = total_region

\* a release that merged has happened and both kinds of segment exist
C1_Witness ==
    /\ last.op = "sfree" /\ last.acted
    /\ FreeSegs # {} /\ UsedSegs # {}
    /\ SumSizes(Segs) = PageSize

\* C2: the payload of every outstanding handle lies inside the region, shares
\* no byte with the payload of another outstanding handle nor with the header
\* of any segment, and the segments tile the region exactly.
C2_NoOverlap ==
    /\ TilingOK
    /\ \A h \in DOMAIN live :
        /\ SegOf(h) \in UsedSegs
        /\ base_address <= h /\ h + live[h] <= RegionEnd
        /\ h + live[h] <= SegOf(h) + mem[SegOf(h)].seg_size
        /\ \A g \in (DOMAIN live) \ {h} : Apart(h, h + live[h], g, g + live[g])
        /\ \A a \in Segs : Apart(h, h + live[h], a, a + HdrSize)

\* two payloads of positive size are outstanding right after an allocation
C2_Witness ==
    /\ last.op = "smalloc" /\ last.acted
    /\ Cardinality({h \in DOMAIN live : live[h] > 0}) >= 2

\* C3: when sfree has returned, no two address-adjacent segments are both free.
C3_Coalesced == last.op = "sfree" => NoAdjacentFree

\* the released segment was merged with its successor and its predecessor
C3_Witness ==
    /\ last.op = "sfree" /\ last.acted
    /\ \E a \in FreeSegs :
        /\ a < last.seg
        /\ a + mem[a].seg_size > last.seg + last.segsz

\* C4 as stated: the offset of a successful smalloc is in [0, regionSize) and
\* a multiple of 8.
C4_Original ==
    (last.op = "smalloc" /\ stat.success = 1) =>
        /\ 0 <= stat.payload_offset /\ stat.payload_offset < total_region
        /\ stat.payload_offset % 8 = 0

\* C4 amended: the offset of a successful smalloc is in [0, regionSize] (the
\* upper end included) and a multiple of 8.
C4_Offset ==
    (last.op = "smalloc" /\ stat.success = 1) =>
        /\ 0 <= stat.payload_offset /\ stat.payload_offset <= total_region
        /\ stat.payload_offset % 8 = 0
        /\ stat.payload_offset = last.ret - base_address

\* a zero-size request was served at the very end of the region
C4_Witness ==
    /\ last.op = "smalloc" /\ stat.success = 1 /\ last.arg = 0
    /\ stat.payload_offset = total_region

\* C5: smalloc on an uninitialized region, or when no free segment is as large
\* as alignUp(headerSize + size, 8), reports success = 0, payload_offset = -1,
\* hops = -1, returns NULL, and changes neither the free list nor any header.
C5_FailureLeavesHeap ==
    [][(/\ last'.op = "smalloc"
        /\ \/ ~Initialized
           \/ \A a \in FreeSegs : mem[a].seg_size < Required(last'.arg))
       => /\ stat' = [success |-> 0, payload_offset |-> -1, hops |-> -1]
          /\ last'.ret = NULL
          /\ mem' = mem
          /\ free_list_head' = free_list_head]_vars

\* a request failed although the region is initialized and has free segments
C5_Witness ==
    /\ last.op = "smalloc" /\ ~last.acted /\ stat.success = 0
    /\ Initialized /\ FreeSegs # {} /\ UsedSegs # {}

\* C6: smalloc succeeds exactly when some free-list segment is as large as
\* alignUp(headerSize + size, 8), and it then allocates from the lowest-address
\* such segment.
C6_FirstFit ==
    [][last'.op = "smalloc" =>
        LET fitting == {a \in FreeAddrs : mem[a].seg_size >= Required(last'.arg)}
        IN /\ last'.acted <=> fitting # {}
           /\ (stat'.success = 1) <=> fitting # {}
           /\ last'.acted =>
                /\ last'.seg \in fitting
                /\ \A a \in fitting : last'.seg <= a
                /\ last'.ret = last'.seg + HdrSize]_vars

\* a freed hole at a low address was reused although free space lies behind it
C6_Witness ==
    /\ last.op = "smalloc" /\ last.acted /\ ~last.split
    /\ \E a \in FreeSegs : a > last.seg
    /\ \E a \in UsedSegs : a > last.seg
\* C7 as stated: sfree(p) immediately followed by smalloc(x), where
\* alignUp(headerSize + x, 8) fits in the segment p released, returns p again.
C7_Original ==
    [][(/\ last.op = "sfree" /\ last.acted
        /\ last'.op = "smalloc"
        /\ Required(last'.arg) <= last.segsz)
       => (last'.acted /\ last'.ret = last.arg)]_vars

\* C7 amended: the same, provided the released segment was not merged into a
\* free predecessor and no free segment at a lower address is large enough.
C7_Reuse ==
    [][(/\ last.op = "sfree" /\ last.acted
        /\ last'.op = "smalloc"
        /\ Required(last'.arg) <= last.segsz
        /\ last.seg \in FreeAddrs
        /\ \A a \in FreeAddrs :
              a < last.seg => mem[a].seg_size < Required(last'.arg))
       => /\ last'.acted /\ last'.ret = last.arg
          /\ stat'.success = 1
          /\ stat'.payload_offset = last.arg - base_address]_vars

\* the pointer just released was handed out again, past a smaller free hole
C7_Witness ==
    /\ last.op = "smalloc" /\ last.acted /\ last.again
    /\ stat.hops >= 1

\* C8: sfree on a handle that has been released already, with no smalloc in
\* between, changes neither the free list nor any header, and the tiling, the
\* address order of the free list and the size sum still hold.
C8_DoubleFree ==
    /\ [][(last'.op = "sfree" /\ last'.arg \in released)
          => /\ ~last'.acted
             /\ mem' = mem
             /\ free_list_head' = free_list_head
             /\ live' = live
             /\ released' = released]_vars
    /\ []((last.op = "sfree" /\ last.arg \in released)
            => (TilingOK /\ OrderOK /\ SumOK))

\* the handle released by the previous call was released a second time, and
\* its segment had been merged into its predecessor
C8_Witness ==
    /\ last.op = "sfree" /\ ~last.acted /\ last.again
    /\ last.arg \in released
    /\ last.seg \notin Segs

\* C9: the hops of a successful smalloc are the number of free-list entries at
\* an address below the chosen segment, so 0 when the head is chosen.
C9_Hops ==
    [][(last'.op = "smalloc" /\ last'.acted)
       => /\ stat'.hops = Cardinality({a \in FreeAddrs : a < last'.seg})
          /\ (last'.seg = free_list_head => stat'.hops = 0)]_vars

\* an allocation skipped a free-list entry that was too small
C9_Witness ==
    /\ last.op = "smalloc" /\ last.acted
    /\ stat.success = 1 /\ stat.hops = 1
    /\ \E a \in FreeSegs : a < last.seg

\* C10: a successful smalloc immediately followed by sfree of the pointer it
\* returned restores the free list to the (address, size) pairs it held
\* before the smalloc.
C10_RoundTrip ==
    [][(/\ last.op = "smalloc" /\ last.acted
        /\ last'.op = "sfree" /\ last'.arg = last.ret)
       => /\ last'.acted
          /\ FreeSet(mem', free_list_head') = preFree]_vars

\* the allocation just undone had taken a whole segment without splitting it
C10_Witness ==
    /\ last.op = "sfree" /\ last.acted /\ last.again
    /\ UsedSegs # {}
    /\ last.seg \in FreeSegs
    /\ mem[last.seg].seg_size = last.segsz

\* C11: a successful my_init(n) returns 0, records n rounded up to the next
\* multiple of 4096 as the total size, and leaves exactly one segment: at
\* offset 0, of the full size, free, head of the free list, without links.
C11_InitState ==
    (last.op = "my_init" /\ last.ret = 0) =>
        /\ last.arg >= 1
        /\ total_region = alignUp(last.arg, PageSize)
        /\ total_region >= last.arg /\ total_region - last.arg < PageSize
        /\ base_address = MmapAddr
        /\ SegSeq = <<base_address>>
        /\ DOMAIN mem = {base_address}
        /\ mem[base_address] = [seg_size |-> total_region, in_use |-> 0,
                                next |-> NULL, prev |-> NULL]
        /\ free_list_head = base_address

\* my_init has just succeeded for a size that is already a multiple of 4096
C11_Witness ==
    /\ last.op = "my_init" /\ last.ret = 0 /\ last.arg = PageSize
    /\ total_region = PageSize /\ free_list_head = base_address

\* C12: the free list is strictly ascending by address from the head, the
\* head has no prev, and next and prev are mutual inverses on its entries.
C12_ListLinks ==
    /\ OrderOK
    /\ Cardinality(FreeAddrs) = Len(FreeSeq)
    /\ free_list_head # NULL => mem[free_list_head].prev = NULL
    /\ \A i \in 1..Len(FreeSeq) :
        LET s == FreeSeq[i] IN
        /\ mem[s].next = (IF i < Len(FreeSeq) THEN FreeSeq[i + 1] ELSE NULL)
        /\ mem[s].prev = (IF i > 1 THEN FreeSeq[i - 1] ELSE NULL)
        /\ mem[s].next # NULL => mem[mem[s].next].prev = s
        /\ mem[s].prev # NULL => mem[mem[s].prev].next = s

\* a release put its segment in front of the former head of the free list
C12_Witness ==
    /\ last.op = "sfree" /\ last.acted
    /\ Len(FreeSeq) >= 2
    /\ free_list_head = last.seg
    /\ mem[mem[last.seg].next].prev = last.seg

\* C13: the segments reached from the free-list head are exactly the segments
\* of the tiling that are marked free, each once.
C13_ListIsFreeSegs ==
    /\ FreeAddrs = FreeSegs
    /\ Cardinality(FreeAddrs) = Len(FreeSeq)
    /\ \A a \in FreeAddrs : mem[a].in_use = 0
    /\ \A a \in UsedSegs : a \notin FreeAddrs
    /\ \A a \in (DOMAIN mem) \ Segs : a \notin FreeAddrs

\* a release has absorbed a segment, whose header is left behind, while
\* another segment is in use
C13_Witness ==
    /\ last.op = "sfree" /\ last.acted
    /\ (DOMAIN mem) \ Segs # {}
    /\ UsedSegs # {} /\ FreeSegs # {}

\* C14: a successful smalloc with required = alignUp(headerSize + size, 8) on
\* a chosen segment of size c splits when c - required >= headerSize (the
\* in-use segment gets size required, a free segment of size c - required
\* follows it and is in the free list) and otherwise keeps size c and creates
\* no segment; the in-use size exceeds required by 0 .. headerSize - 1.
C14_SplitRule ==
    (last.op = "smalloc" /\ last.acted) =>
        LET t == last.seg
            c == last.segsz
            required == Required(last.arg)
        IN /\ <<t, c>> \in preFree
           /\ mem[t].in_use = 1
           /\ t \in Segs
           /\ mem[t].seg_size - required \in 0..(HdrSize - 1)
           /\ IF c - required >= HdrSize
              THEN /\ last.split
                   /\ mem[t].seg_size = required
                   /\ (t + required) \in FreeSegs
                   /\ mem[t + required].seg_size = c - required
                   /\ FreeSet(mem, free_list_head) =
                         (preFree \ {<<t, c>>}) \cup {<<t + required, c - required>>}
              ELSE /\ ~last.split
                   /\ mem[t].seg_size = c
                   /\ FreeSet(mem, free_list_head) = preFree \ {<<t, c>>}

\* an allocation kept a whole segment that was larger than required
C14_Witness ==
    /\ last.op = "smalloc" /\ last.acted /\ ~last.split
    /\ mem[last.seg].seg_size > Required(last.arg)

\* C15: in every reachable state, also right after a smalloc that splits, no
\* two address-adjacent segments are both free.
C15_NoAdjacentFree == NoAdjacentFree /\ TilingOK

\* an allocation has just split a free hole that lies in front of an in-use
\* segment
C15_Witness ==
    /\ last.op = "smalloc" /\ last.acted /\ last.split
    /\ Cardinality(FreeSegs) >= 1
    /\ \E a \in UsedSegs : a > last.seg

\* C16: every segment of the tiling has a size that is a multiple of 8 and at
\* least the size of a header.
C16_SegmentSizes ==
    \A a \in Segs : mem[a].seg_size % Align = 0 /\ mem[a].seg_size >= HdrSize

\* a segment of exactly the header size and one with slack exist
C16_Witness ==
    /\ \E a \in Segs : mem[a].seg_size = HdrSize
    /\ \E a \in UsedSegs : \E h \in DOMAIN live :
          SegOf(h) = a /\ mem[a].seg_size > Required(live[h])

\* C17: a successful smalloc changes the size or in_use field of at most two
\* headers, the chosen segment's and the new remainder's; neither smalloc nor
\* sfree(h) changes the start, size or in_use flag of an in-use segment other
\* than the one allocated or the one that owns h, and every other outstanding
\* handle keeps its extent.
C17_Frame ==
    [][(last'.op \in {"smalloc", "sfree"}) =>
        LET own == IF last'.op = "sfree" THEN {SegOf(last'.arg)} ELSE {}
            w == Walk(mem', base_address', base_address' + total_region')
            after == {w[i] : i \in 1..Len(w)}
            changed == {a \in DOMAIN mem' :
                           \/ a \notin DOMAIN mem
                           \/ mem'[a].seg_size # mem[a].seg_size
                           \/ mem'[a].in_use # mem[a].in_use}
        IN /\ \A a \in UsedSegs \ own :
                /\ a \in after
                /\ mem'[a].seg_size = mem[a].seg_size
                /\ mem'[a].in_use = mem[a].in_use
           /\ \A h \in (DOMAIN live) \ {last'.arg} :
                h \in DOMAIN live' /\ live'[h] = live[h]
           /\ last'.op = "smalloc" =>
                /\ Cardinality(changed) <= 2
                /\ changed \subseteq {last'.seg, last'.seg + Required(last'.arg)}
                /\ ~last'.acted => changed = {}]_vars

\* a release took place right in front of an in-use segment, whose handle
\* stays outstanding
C17_Witness ==
    /\ last.op = "sfree" /\ last.acted
    /\ DOMAIN live # {}
    /\ \E a \in UsedSegs : a = last.seg + last.segsz

\* C18: whenever every outstanding handle has been released, the free list is
\* the single segment at offset 0 with the full region size, free and without
\* links, as right after my_init.
C18_FullReclaim ==
    (Initialized /\ DOMAIN live = {}) =>
        /\ FreeSet(mem, free_list_head) = {<<base_address, total_region>>}
        /\ free_list_head = base_address
        /\ SegSeq = <<base_address>>
        /\ mem[base_address] = [seg_size |-> total_region, in_use |-> 0,
                                next |-> NULL, prev |-> NULL]

\* the last of two outstanding handles has just been released
C18_Witness ==
    /\ last.op = "sfree" /\ last.acted
    /\ DOMAIN live = {}
    /\ Cardinality(released) >= 2

\* C19: for every payload size up to 2^31 - 1 the required size computed in
\* int arithmetic is at least headerSize + payloadSize, so a request larger
\* than the region fails with success = 0.
C19_NoWrap ==
    (Initialized /\ last.op = "smalloc" /\ last.arg >= 0) =>
        /\ TotalRequired(last.arg) >= HdrSize
        /\ TotalRequired(last.arg) - HdrSize >= last.arg
        /\ (last.arg > total_region) => stat.success = 0

\* C20: a my_init that returns -1 leaves base_address, free_list_head and
\* total_region exactly as they were before the call.
C20_FailedInitKeepsState ==
    [][(last'.op = "my_init" /\ last'.ret = -1)
       => /\ base_address' = base_address
          /\ free_list_head' = free_list_head
          /\ total_region' = total_region]_vars
====
